---- MODULE Spec2Model ----
(***************************************************************************)
(* Model of the Danbooru scraping engine (src/scraper.py): the progress    *)
(* store (_load_state / _save_state), the page fetcher, the record sink,   *)
(* the range scanner (_scrape_id_range) and the batch driver (scrape_all). *)
(* A record is modelled by its id, the only field the engine inspects.     *)
(* The state file is modelled by what a reader finds in it: nothing, a     *)
(* complete JSON object, or a file that open(..., 'w') has truncated and   *)
(* json.dump has not finished writing.                                     *)
(***************************************************************************)
EXTENDS Integers, Sequences, FiniteSets, TLC

(***************************************************************************)
(* Bounds of the model.                                                    *)
(***************************************************************************)
\* ids of the small upstream universes: every subset of 1..MaxId is an upstream
MaxId == 3
\* how many disruptions one behaviour may hold: a kill or interrupt of the
\* process, or a failure of a fetch, of the sink or of the state file
MaxDisruptions == 1

(***************************************************************************)
(* Program constants.                                                      *)
(***************************************************************************)
\* scraper.py:36   min(posts_per_page, 200)
MaxPostsPerPage == 200
\* scraper.py:165  max_pages = 1000
max_pages == 1000

Min(a, b) == IF a <= b THEN a ELSE b

MaxOf(S) == CHOOSE x \in S : \A y \in S : y <= x

\* an engine that takes the configured page size as it is
ClampPerPage_None(p) == p

(***************************************************************************)
(* __init__: posts_per_page is clamped to the API maximum.                 *)
(***************************************************************************)
ClampPerPage(p) == Min(p, MaxPostsPerPage)

(***************************************************************************)
(* Progress state (the dict self.state).  last_update is abstracted to     *)
(* "None" (never stamped) or "stamped" (datetime.now().isoformat()).       *)
(***************************************************************************)
DefaultState ==
    [last_processed_id   |-> 0,
     total_posts_scraped |-> 0,
     last_update         |-> "None",
     current_batch_start |-> 1]

\* the state file: absent, truncated / partly written, or a complete object
NoFile == [exists |-> FALSE, complete |-> FALSE, content |-> DefaultState]

PartialFile == [exists |-> TRUE, complete |-> FALSE, content |-> DefaultState]

\* a save that writes the checkpoint but not the counters
FileOf_CheckpointOnly(st) ==
    [exists |-> TRUE, complete |-> TRUE,
     content |-> [DefaultState EXCEPT
                      !.current_batch_start = st.current_batch_start]]

FileOf(st) == [exists |-> TRUE, complete |-> TRUE, content |-> st]

\* a resume that ignores the state file
LoadState_Fresh(d, readable) == DefaultState

\* a resume that loads the counters but not the checkpoint
LoadState_NoCheckpoint(d, readable) ==
    IF d.exists /\ readable /\ d.complete
      THEN [d.content EXCEPT !.current_batch_start = 1]
      ELSE DefaultState

\* a load that hands back what is in the file although reading it failed
LoadState_NoFallback(d, readable) ==
    IF d.exists THEN d.content ELSE DefaultState

\* _load_state: the stored object when the file exists and json.load succeeds
\* (readable and complete), the default state otherwise
LoadState(d, readable) ==
    IF d.exists /\ readable /\ d.complete THEN d.content ELSE DefaultState

\* _save_state line 75: the time stamp is set before the file is opened
Stamp(st) == [st EXCEPT !.last_update = "stamped"]

(***************************************************************************)
(* Upstream API: GET posts.json?tags=id:lo..hi&limit=n&page=p returns the  *)
(* p-th slice of n of the records with lo <= id <= hi, ascending by id.    *)
(***************************************************************************)
RECURSIVE IdsIn(_, _, _)
IdsIn(ups, lo, hi) ==
    IF lo > hi THEN << >>
    ELSE IF lo = hi THEN (IF lo \in ups THEN << lo >> ELSE << >>)
    ELSE LET mid == (lo + hi) \div 2
         IN  IdsIn(ups, lo, mid) \o IdsIn(ups, mid + 1, hi)

PageOf(ups, lo, hi, pg, limit) ==
    LET all   == IdsIn(ups, lo, hi)
        first == (pg - 1) * limit + 1
        last  == Min(pg * limit, Len(all))
    IN  IF first > last THEN << >> ELSE SubSeq(all, first, last)

\* a fetcher whose failures are not turned into an empty page
FetchPostsByIdRange_Unabsorbed(ups, lo, hi, pg, limit, ok) ==
    PageOf(ups, lo, hi, pg, limit)

\* a fetcher that does not pass the page number on: always page 1
FetchPostsByIdRange_FirstPage(ups, lo, hi, pg, limit, ok) ==
    IF ok THEN PageOf(ups, lo, hi, 1, limit) ELSE << >>

\* _fetch_posts_by_id_range: the page, or [] on any request / decode error
FetchPostsByIdRange(ups, lo, hi, pg, limit, ok) ==
    IF ok THEN PageOf(ups, lo, hi, pg, limit) ELSE << >>

\* _get_highest_post_id: posts[0]['id'] of the newest post; 0 stands for None
GetHighestPostId(ups, ok) ==
    IF ok /\ ups # {} THEN MaxOf(ups) ELSE 0

(***************************************************************************)
(* Range scanner and batch driver: the pieces of the loops.                *)
(***************************************************************************)
\* a driver that goes on without a highest id
Aborts_Never(h) == FALSE

\* scraper.py:218  if highest_id is None
Aborts(h) == h = 0

\* scraper.py:171  if not posts
NoPosts(ps) == ps = << >>

\* scraper.py:183  max(post['id'] for post in posts)
MaxPostId(ps) == MaxOf({ps[i] : i \in 1..Len(ps)})

\* a scanner that moves the checkpoint past each page it has counted
CountPage_MovesCheckpoint(st, ps) ==
    [st EXCEPT !.total_posts_scraped = @ + Len(ps),
               !.last_processed_id = IF MaxPostId(ps) > @ THEN MaxPostId(ps) ELSE @,
               !.current_batch_start = MaxPostId(ps) + 1]

\* a scanner that takes the highest id of the page just fetched
CountPage_LastPage(st, ps) ==
    [st EXCEPT !.total_posts_scraped = @ + Len(ps),
               !.last_processed_id = MaxPostId(ps)]

\* scraper.py:179-185  counters after a page was handed to the sink
CountPage(st, ps) ==
    [st EXCEPT !.total_posts_scraped = @ + Len(ps),
               !.last_processed_id = IF MaxPostId(ps) > @ THEN MaxPostId(ps) ELSE @]

\* a short-page test that also stops on a full page
IsShortPage_OrFull(n, limit) == n <= limit

\* a scanner without the short-page test
IsShortPage_Never(n, limit) == FALSE

\* scraper.py:196  fewer posts than requested: end of range
IsShortPage(n, limit) == n < limit

\* a scanner without the page ceiling
MorePages_NoCeiling(pg) == TRUE

\* scraper.py:167  while page <= max_pages
MorePages(pg) == pg <= max_pages

\* scraper.py:228  while current_min_id <= highest_id
MoreBatches(cur, highest) == cur <= highest

\* a window end that is not clamped to the highest id
BatchEnd_Unclamped(cur, size, highest) == cur + size - 1

\* scraper.py:229  current_max_id
BatchEnd(cur, size, highest) == Min(cur + size - 1, highest)

\* a checkpoint that stays on the last id of the window
NextBatchStart_Same(curmax) == curmax

\* scraper.py:241  current_min_id = current_max_id + 1
\* a driver that resumes one id too far
NextBatchStart_Skip(curmax) == curmax + 2

NextBatchStart(curmax) == curmax + 1

(***************************************************************************)
(* State.                                                                  *)
(***************************************************************************)
VARIABLES
    batch_size,       \* self.batch_size
    posts_per_page,   \* self.posts_per_page (already clamped)
    upstream,         \* ids of the records the API currently holds
    disk,             \* the state file
    out,              \* the output file: the id of each line, in file order
    pc,               \* where the process is
    state,            \* self.state
    highest_id,       \* scrape_all: highest_id
    current_min_id,   \* scrape_all: current_min_id
    current_max_id,   \* scrape_all: current_max_id
    batch_posts,      \* scrape_all: batch_posts, the scanner's return value
    min_id,           \* _scrape_id_range: min_id
    max_id,           \* _scrape_id_range: max_id
    page,             \* _scrape_id_range: page
    posts,            \* _scrape_id_range: posts
    posts_scraped,    \* _scrape_id_range: posts_scraped
    save_from,        \* which call of _save_state is running: "page" or "batch"
    fetches,          \* history: the fetch calls of the current scanner invocation
    sink_writes,      \* history: lines written by the current scanner invocation
    run_fetches,      \* history: number of window fetches of the current run
    visited,          \* history: every window handed to the scanner, all runs
    run0,             \* history: snapshot taken when the current run started
    scan0,            \* history: self.state when the current scanner call began
    hwm,              \* history: highest checkpoint ever completely persisted
    observed_max,     \* history: the highest of last_processed_id as loaded
                      \* by this process and the ids of the records its
                      \* fetches have returned
    received,         \* history: the ids of the records the fetches of this
                      \* process have returned
    lost,             \* history: the fetches that failed: window (index in
                      \*          visited) and page
    events,           \* history: kinds of failure / stop / growth seen so far
    budget            \* disruptions that may still happen

config  == << batch_size, posts_per_page >>
driver  == << highest_id, current_min_id, current_max_id, batch_posts >>
scanner == << min_id, max_id, page, posts, posts_scraped >>
history == << fetches, sink_writes, run_fetches, visited, run0, scan0, hwm >>
ledger  == << lost, observed_max, received >>

vars == << batch_size, posts_per_page, upstream, disk, out, pc, state,
           highest_id, current_min_id, current_max_id, batch_posts,
           min_id, max_id, page, posts, posts_scraped, save_from,
           fetches, sink_writes, run_fetches, visited, run0, scan0, hwm,
           lost, observed_max, received, events, budget >>

Running == {"loop", "fetch", "append", "save", "dump", "advance"}

Ended == {"done", "aborted", "killed", "interrupted"}

(***************************************************************************)
(* Inputs: configuration, upstream content and failure budget.             *)
(***************************************************************************)
BatchSizes == {1, 2}

PageSizes == {1, 2, 250}

SmallInputs ==
    [batch_size : BatchSizes, posts_per_page : PageSizes,
     upstream : SUBSET (1..MaxId), disruptions : {MaxDisruptions}]

\* the end-to-end scenario: max id 250, batch size 100, page size 50
\* (two ids are gaps, so that the first two windows end on a short page)
Scenario ==
    [batch_size |-> 100, posts_per_page |-> 50,
     upstream |-> (1..250) \ {13, 113}, disruptions |-> 0]

\* one window that holds more records than max_pages pages of one record
DeepWindow ==
    [batch_size |-> max_pages + 1, posts_per_page |-> 1,
     upstream |-> 1..(max_pages + 1), disruptions |-> 0]

\* a configured page size above the API's maximum, and one window that
\* holds more records than one page of the maximum
OverLimit ==
    [batch_size |-> MaxPostsPerPage + 50, posts_per_page |-> MaxPostsPerPage + 50,
     upstream |-> 1..(MaxPostsPerPage + 50), disruptions |-> 0]

Inputs == SmallInputs \cup {Scenario, DeepWindow, OverLimit}

\* one small configuration in which two failures can follow one another
CompoundInputs ==
    [batch_size : {2}, posts_per_page : {1},
     upstream : {1..(MaxId - 1), 1..MaxId}, disruptions : {MaxDisruptions + 1}]

\* started: scrape_all was called in this process; first_call: the current
\* call is the first one on this engine object; unavailable: its query for
\* the highest id gave None; after_done_max: the highest id of the run that
\* completed just before this one (0 when the run before did not complete)
Snapshot(st, o, d, v, m) ==
    [state |-> st, out_len |-> Len(o), disk |-> d, visited_len |-> Len(v),
     started |-> FALSE, first_call |-> TRUE, unavailable |-> FALSE,
     after_done_max |-> m]

Start(c) ==
        /\ batch_size = c.batch_size
        /\ posts_per_page = ClampPerPage(c.posts_per_page)
        /\ upstream = c.upstream
        /\ budget = c.disruptions
        /\ disk = NoFile
        /\ out = << >>
        /\ pc = "idle"
        /\ state = LoadState(NoFile, TRUE)
        /\ highest_id = 0
        /\ current_min_id = 0
        /\ current_max_id = 0
        /\ batch_posts = 0
        /\ min_id = 0
        /\ max_id = 0
        /\ page = 0
        /\ posts = << >>
        /\ posts_scraped = 0
        /\ save_from = "none"
        /\ fetches = << >>
        /\ sink_writes = 0
        /\ run_fetches = 0
        /\ visited = << >>
        /\ run0 = Snapshot(DefaultState, << >>, NoFile, << >>, 0)
        /\ scan0 = DefaultState
        /\ hwm = 0
        /\ lost = {}
        /\ observed_max = DefaultState.last_processed_id
        /\ received = {}
        /\ events = {}

Init == \E c \in Inputs : Start(c)

InitCompound == \E c \in CompoundInputs : Start(c)

\* a failure is injected only while the budget lasts
Outcomes == IF budget > 0 THEN {TRUE, FALSE} ELSE {TRUE}

Charge(ok, kind) ==
    /\ budget' = IF ok THEN budget ELSE budget - 1
    /\ events' = IF ok THEN events ELSE events \cup {kind}

(***************************************************************************)
(* scrape_all, lines 216-225: query the highest id, abort on None.         *)
(***************************************************************************)
ScrapeAll ==
    /\ pc \in {"idle", "done", "aborted"}
    /\ \E ok \in Outcomes :
         LET h == GetHighestPostId(upstream, ok) IN
         /\ Charge(ok, "highest_fail")
         /\ run0' = [Snapshot(state, out, disk, visited,
                               IF pc = "done" THEN highest_id
                               ELSE IF pc = "idle" THEN run0.after_done_max
                               ELSE 0)
                        EXCEPT !.started = TRUE, !.first_call = (pc = "idle"),
                               !.unavailable = (h = 0)]
         /\ run_fetches' = 0
         /\ IF Aborts(h)
              THEN /\ pc' = "aborted"
                   /\ UNCHANGED << highest_id, current_min_id >>
              ELSE /\ pc' = "loop"
                   /\ highest_id' = h
                   /\ current_min_id' = state.current_batch_start
    /\ UNCHANGED << config, upstream, disk, out, state, current_max_id,
                    batch_posts, scanner, save_from, fetches, sink_writes,
                    visited, scan0, hwm, ledger >>

(***************************************************************************)
(* scrape_all, lines 228-236: the loop test, the window, the scanner call  *)
(* (_scrape_id_range lines 163-164).                                       *)
(***************************************************************************)
BatchLoop ==
    /\ pc = "loop"
    /\ IF MoreBatches(current_min_id, highest_id)
         THEN LET e == BatchEnd(current_min_id, batch_size, highest_id) IN
              /\ current_max_id' = e
              /\ min_id' = current_min_id
              /\ max_id' = e
              /\ posts_scraped' = 0
              /\ page' = 1
              /\ posts' = << >>
              /\ fetches' = << >>
              /\ sink_writes' = 0
              /\ visited' = Append(visited, << current_min_id, e >>)
              /\ scan0' = state
              /\ pc' = "fetch"
         ELSE /\ pc' = "done"
              /\ UNCHANGED << current_max_id, scanner, fetches, sink_writes,
                              visited, scan0 >>
    /\ UNCHANGED << config, upstream, disk, out, state, highest_id,
                    current_min_id, batch_posts, save_from, run_fetches, run0,
                    hwm, ledger, events, budget >>

(***************************************************************************)
(* _scrape_id_range, lines 169-174: fetch the page; an empty result ends   *)
(* the window and the scanner returns posts_scraped.                       *)
(***************************************************************************)
FetchPage ==
    /\ pc = "fetch"
    /\ \E ok \in Outcomes :
         LET got == FetchPostsByIdRange(upstream, min_id, max_id, page,
                                        posts_per_page, ok) IN
         /\ Charge(ok, "fetch_fail")
         /\ posts' = got
         /\ fetches' = Append(fetches, [page |-> page, lo |-> min_id,
                                        hi |-> max_id, n |-> Len(got),
                                        ok |-> ok, limit |-> posts_per_page])
         /\ lost' = IF ok THEN lost
                    ELSE lost \cup {[window |-> Len(visited), page |-> page]}
         /\ observed_max' = IF NoPosts(got) THEN observed_max
                            ELSE MaxOf({observed_max, MaxPostId(got)})
         /\ received' = received \cup {got[i] : i \in 1..Len(got)}
         /\ run_fetches' = run_fetches + 1
         /\ IF NoPosts(got)
              THEN /\ batch_posts' = posts_scraped
                   /\ pc' = "advance"
              ELSE /\ pc' = "append"
                   /\ UNCHANGED batch_posts
    /\ UNCHANGED << config, upstream, disk, out, state, highest_id,
                    current_min_id, current_max_id, min_id, max_id, page,
                    posts_scraped, save_from, sink_writes, visited, run0, scan0,
                    hwm >>

(***************************************************************************)
(* _scrape_id_range, lines 176-185: _append_posts_to_file, then the        *)
(* counters.  An I/O error inside the sink is caught there: some prefix of *)
(* the page's lines is in the file and the scanner goes on.                *)
(***************************************************************************)
\* a sink that may return before all lines of the page are in the file
Written_Deferred(ps, ok) == 0..Len(ps)

Written(ps, ok) == IF ok THEN {Len(ps)} ELSE 0..(Len(ps) - 1)

\* a sink that opens the output file with mode 'w'
AppendLines_Truncating(o, ps, k) == SubSeq(ps, 1, k)

\* _append_posts_to_file, lines 145-148: mode 'a', one line per post, in
\* order; k lines are written before the call ends
AppendLines(o, ps, k) == o \o SubSeq(ps, 1, k)

AppendPosts ==
    /\ pc = "append"
    /\ \E ok \in Outcomes :
         /\ Charge(ok, "sink_fail")
         /\ \E k \in Written(posts, ok) :
              /\ out' = AppendLines(out, posts, k)
              /\ sink_writes' = sink_writes + k
    /\ posts_scraped' = posts_scraped + Len(posts)
    /\ state' = CountPage(state, posts)
    /\ save_from' = "page"
    /\ pc' = "save"
    /\ UNCHANGED << config, upstream, disk, driver, min_id, max_id, page,
                    posts, fetches, run_fetches, visited, run0, scan0, hwm,
                    ledger >>

(***************************************************************************)
(* What follows a call of _save_state.  After the page save (lines         *)
(* 196-203): a short page or the page ceiling ends the window.  After the  *)
(* batch save (line 246): back to the loop test.                           *)
(***************************************************************************)
AfterSave ==
    IF save_from = "page"
      THEN IF IsShortPage(Len(posts), posts_per_page)
             THEN /\ batch_posts' = posts_scraped
                  /\ pc' = "advance"
                  /\ UNCHANGED page
             ELSE /\ page' = page + 1
                  /\ IF MorePages(page + 1)
                       THEN /\ pc' = "fetch"
                            /\ UNCHANGED batch_posts
                       ELSE /\ batch_posts' = posts_scraped
                            /\ pc' = "advance"
      ELSE /\ pc' = "loop"
           /\ UNCHANGED << page, batch_posts >>

(***************************************************************************)
(* _save_state, lines 75-77: stamp last_update, open the file for writing. *)
(* open(..., 'w') truncates the file; if it raises, the file is untouched  *)
(* and the error is logged.                                                *)
(***************************************************************************)
SaveStateOpen ==
    /\ pc = "save"
    /\ state' = Stamp(state)
    /\ \E ok \in Outcomes :
         /\ Charge(ok, "save_fail")
         /\ IF ok
              THEN /\ disk' = PartialFile
                   /\ pc' = "dump"
                   /\ UNCHANGED << page, batch_posts >>
              ELSE /\ disk' = disk
                   /\ AfterSave
    /\ UNCHANGED << config, upstream, out, highest_id, current_min_id,
                    current_max_id, min_id, max_id, posts, posts_scraped,
                    save_from, history, ledger >>

(***************************************************************************)
(* _save_state, line 78: json.dump writes the object; if it raises, the    *)
(* file keeps what was written so far and the error is logged.             *)
(***************************************************************************)
SaveStateDump ==
    /\ pc = "dump"
    /\ \E ok \in Outcomes :
         /\ Charge(ok, "save_fail")
         /\ disk' = IF ok THEN FileOf(state) ELSE PartialFile
         /\ hwm' = IF ok /\ state.current_batch_start > hwm
                     THEN state.current_batch_start ELSE hwm
    /\ AfterSave
    /\ UNCHANGED << config, upstream, out, state, highest_id, current_min_id,
                    current_max_id, min_id, max_id, posts, posts_scraped,
                    save_from, fetches, sink_writes, run_fetches, visited,
                    run0, scan0, ledger >>

(***************************************************************************)
(* scrape_all, lines 241-243: advance the checkpoint and save it.          *)
(***************************************************************************)
AdvanceBatch ==
    /\ pc = "advance"
    /\ current_min_id' = NextBatchStart(current_max_id)
    /\ state' = [state EXCEPT !.current_batch_start =
                                  NextBatchStart(current_max_id)]
    /\ save_from' = "batch"
    /\ pc' = "save"
    /\ UNCHANGED << config, upstream, disk, out, highest_id, current_max_id,
                    batch_posts, scanner, history, ledger, events, budget >>

(***************************************************************************)
(* The process is killed, or interrupted by the operator (main, lines      *)
(* 294-296: KeyboardInterrupt is not an Exception, so no handler inside    *)
(* the engine catches it and it unwinds to main, which prints and exits).  *)
(* Inside the sink some prefix of the page may already be in the file.     *)
(***************************************************************************)
StopKind == IF pc = "loop" THEN "stop_boundary" ELSE "stop_mid"

Stop ==
    /\ pc \in Running
    /\ budget > 0
    /\ budget' = budget - 1
    /\ events' = events \cup {StopKind}
    /\ \E how \in {"killed", "interrupted"} : pc' = how
    /\ IF pc = "append"
         THEN \E k \in 0..Len(posts) :
                  /\ out' = AppendLines(out, posts, k)
                  /\ sink_writes' = sink_writes + k
         ELSE UNCHANGED << out, sink_writes >>
    /\ UNCHANGED << config, upstream, disk, state, driver, scanner, save_from,
                    fetches, run_fetches, visited, run0, scan0, hwm, ledger >>

(***************************************************************************)
(* main, lines 283-303: scrape_all returns (all windows done, or aborted   *)
(* at line 220) and main prints the statistics and returns; or             *)
(* KeyboardInterrupt is caught at line 294 and main prints and returns.    *)
(* No path calls sys.exit or re-raises: the interpreter exits with 0.      *)
(* ExitStatus(pc) is the exit status of a process that has ended with pc.  *)
(***************************************************************************)
MainEndings == {"done", "aborted", "interrupted"}

ExitStatus(ending) == 0

(***************************************************************************)
(* The old process is gone (main has returned, or the process was killed)  *)
(* and a new one starts: __init__ (line 52) loads the state file.          *)
(***************************************************************************)
Restart ==
    /\ pc \in Ended
    /\ \E readable \in (IF disk.exists /\ disk.complete THEN Outcomes ELSE {TRUE}) :
         /\ Charge(readable, "load_fail")
         /\ state' = LoadState(disk, readable)
    /\ pc' = "idle"
    /\ highest_id' = 0
    /\ current_min_id' = 0
    /\ current_max_id' = 0
    /\ batch_posts' = 0
    /\ min_id' = 0
    /\ max_id' = 0
    /\ page' = 0
    /\ posts' = << >>
    /\ posts_scraped' = 0
    /\ save_from' = "none"
    /\ fetches' = << >>
    /\ sink_writes' = 0
    /\ run_fetches' = 0
    /\ run0' = Snapshot(state', out, disk, visited,
                         IF pc = "done" THEN highest_id ELSE 0)
    /\ scan0' = DefaultState
    /\ observed_max' = state'.last_processed_id
    /\ received' = {}
    /\ UNCHANGED << config, upstream, disk, out, visited, hwm, lost >>

(***************************************************************************)
(* The upstream gains a record with a new highest id.  A run reads the     *)
(* highest id once and never looks above it, so a record that appears      *)
(* while a run is under way acts like one that appears right after it:     *)
(* growth is taken between runs.                                           *)
(***************************************************************************)
NewIds == {i \in 1..MaxId : \A j \in upstream : j < i}

NewPost ==
    /\ pc \notin Running
    /\ \E i \in NewIds : upstream' = upstream \cup {i}
    /\ events' = events \cup {"grew"}
    /\ UNCHANGED << config, disk, out, pc, state, driver, scanner, save_from,
                    history, ledger, budget >>

Next ==
    \/ ScrapeAll
    \/ BatchLoop
    \/ FetchPage
    \/ AppendPosts
    \/ SaveStateOpen
    \/ SaveStateDump
    \/ AdvanceBatch
    \/ Stop
    \/ Restart
    \/ NewPost

Spec == Init /\ [][Next]_vars

SpecCompound == InitCompound /\ [][Next]_vars

(***************************************************************************)
(* The uninterrupted, failure-free run, as a function of its inputs: the   *)
(* loops of _scrape_id_range and scrape_all unrolled.                      *)
(***************************************************************************)
\* lines 167-200: the lines one scanner invocation appends, from page pg on
RECURSIVE ScanLines(_, _, _, _, _)
ScanLines(ups, lo, hi, pg, limit) ==
    LET got == FetchPostsByIdRange(ups, lo, hi, pg, limit, TRUE) IN
    IF ~MorePages(pg) \/ got = << >> THEN << >>
    ELSE IF IsShortPage(Len(got), limit) THEN got
    ELSE got \o ScanLines(ups, lo, hi, pg + 1, limit)

\* lines 228-241: the windows a run scans from checkpoint cur on
RECURSIVE RunWindows(_, _, _)
RunWindows(cur, highest, size) ==
    IF ~MoreBatches(cur, highest) THEN << >>
    ELSE LET e == BatchEnd(cur, size, highest)
         IN  << << cur, e >> >> \o RunWindows(NextBatchStart(e), highest, size)

\* the lines appended while scanning the windows ws, in order
RECURSIVE RunLines(_, _, _)
RunLines(ups, ws, limit) ==
    IF ws = << >> THEN << >>
    ELSE ScanLines(ups, ws[1][1], ws[1][2], 1, limit)
             \o RunLines(ups, Tail(ws), limit)

(***************************************************************************)
(* C1  Resume correctness.  When the only disruptions of a behaviour are   *)
(* stops taken at a window boundary (right after the batch save), the      *)
(* upstream has not changed and the last run has terminated (on the small  *)
(* upstream universes, where stops are explored), then the                 *)
(* windows scanned over all processes together are exactly the windows of  *)
(* the uninterrupted run from the default checkpoint, each once and in     *)
(* order, and the output file is exactly the uninterrupted run's output.   *)
(***************************************************************************)
CleanResume == events \subseteq {"stop_boundary"}

\* the inputs on which stops are explored (the small upstream universes)
SmallRun == highest_id <= MaxId

C1_ResumeCorrectness ==
    (pc = "done" /\ CleanResume /\ SmallRun) =>
        /\ visited = RunWindows(DefaultState.current_batch_start, highest_id,
                                batch_size)
        /\ out = RunLines(upstream, visited, posts_per_page)

\* a run that was stopped after at least one window, restarted, and finished
\* after scanning at least one more window
C1_Witness ==
    /\ pc = "done"
    /\ events = {"stop_boundary"}
    /\ run0.visited_len >= 1
    /\ Len(visited) > run0.visited_len
    /\ Len(out) >= 2

(***************************************************************************)
(* C2  Progress monotonicity.  The checkpoint a complete state file holds  *)
(* is never below a checkpoint that was completely persisted before, over  *)
(* any sequence of runs, kills and interrupts at any step (inside a state  *)
(* save too) and restarts, with no I/O or fetch failure at all.            *)
(***************************************************************************)
OnlyStops == events \subseteq {"stop_boundary", "stop_mid", "grew"}

C2_CheckpointMonotone ==
    (OnlyStops /\ disk.exists /\ disk.complete) =>
        disk.content.current_batch_start >= hwm

(***************************************************************************)
(* C4  Atomic state save.  At every instant the state file, when it        *)
(* exists, holds a complete state: never a truncated or partly written     *)
(* one.                                                                    *)
(***************************************************************************)
C4_AtomicSave == disk.exists => disk.complete

(***************************************************************************)
(* History of the current run and of the current scanner invocation.       *)
(***************************************************************************)
\* the lines the current run has appended
RunOut == SubSeq(out, run0.out_len + 1, Len(out))

\* the windows the current run has handed to the scanner
RunVisited == SubSeq(visited, run0.visited_len + 1, Len(visited))

\* no fetch, sink, state-file failure and no stop so far (growth allowed)
Undisturbed == events \subseteq {"grew"}

\* the scanner has returned to the driver and the driver has not yet
\* started the next window
ScanReturned ==
    /\ fetches # << >>
    /\ \/ pc \in {"advance", "loop", "done"}
       \/ pc \in {"save", "dump"} /\ save_from = "batch"

(***************************************************************************)
(* C3  No data loss and no duplicates (as amended: for batch sizes of at   *)
(* most max_pages * page size).  When a run without any failure or stop    *)
(* terminates, the lines it appended hold every upstream id between the    *)
(* checkpoint the run started from and the highest id exactly once, and    *)
(* nothing else.                                                           *)
(***************************************************************************)
WantedIds ==
    {i \in upstream : run0.state.current_batch_start <= i /\ i <= highest_id}

ExactlyWanted ==
    /\ Len(RunOut) = Cardinality(WantedIds)
    /\ {RunOut[i] : i \in 1..Len(RunOut)} = WantedIds

C3_NoLossNoDuplicates ==
    (pc = "done" /\ Undisturbed /\ batch_size <= max_pages * posts_per_page)
        => ExactlyWanted

\* C3 as stated, for every batch size >= 1 and page size in 1..200
C3_Original == (pc = "done" /\ Undisturbed) => ExactlyWanted

\* a finished run that scanned two windows and appended three records
C3_Witness ==
    /\ pc = "done"
    /\ Undisturbed
    /\ batch_size <= max_pages * posts_per_page
    /\ Len(RunVisited) >= 2
    /\ Len(RunOut) >= 3

(***************************************************************************)
(* C5  Idempotent re-run.  When run() is invoked right after a run that    *)
(* completed with upstream maximum M, and the upstream maximum is still M, *)
(* the call makes no window fetch, appends nothing, writes no state file   *)
(* and leaves current_batch_start, total_posts_scraped and                 *)
(* last_processed_id as they were: on the same engine object in every      *)
(* case, and in a new process whenever no state-file save or load has      *)
(* failed.                                                                 *)
(***************************************************************************)
StateFileSound == events \cap {"save_fail", "load_fail"} = {}

\* the current call of scrape_all follows a completed run and the upstream
\* maximum is what that run saw
RerunSameMax ==
    /\ run0.started
    /\ run0.after_done_max > 0
    /\ upstream # {}
    /\ MaxOf(upstream) = run0.after_done_max

C5_IdempotentRerun ==
    (RerunSameMax /\ (run0.first_call => StateFileSound)) =>
        /\ run_fetches = 0
        /\ Len(out) = run0.out_len
        /\ disk = run0.disk
        /\ state = run0.state
        /\ state.current_batch_start = run0.after_done_max + 1
        /\ pc \in {"loop", "done", "aborted", "killed", "interrupted"}

\* a second run in a new process, after a first run that appended records,
\* has terminated
C5_Witness ==
    /\ RerunSameMax
    /\ run0.first_call
    /\ StateFileSound
    /\ pc = "done"
    /\ run0.out_len >= 2
    /\ run0.disk.exists

(***************************************************************************)
(* C6  Fatal startup failure mutates nothing.  When the query for the      *)
(* highest id fails or returns no record, the run is aborted: no window    *)
(* fetch was made, nothing was appended, the state file was not written    *)
(* and self.state is what it was before the call.                          *)
(***************************************************************************)
C6_FatalStartupMutatesNothing ==
    (run0.started /\ run0.unavailable) =>
        /\ pc = "aborted"
        /\ run_fetches = 0
        /\ Len(out) = run0.out_len
        /\ disk = run0.disk
        /\ state = run0.state

\* the query failed in a process that had resumed from saved progress
C6_Witness ==
    /\ run0.started
    /\ run0.unavailable
    /\ pc = "aborted"
    /\ upstream # {}
    /\ state.current_batch_start > 1
    /\ Len(out) >= 1

(***************************************************************************)
(* C7  Window layout and final checkpoint.  In every run, with batch size  *)
(* B, starting checkpoint s and highest id M: the first window starts at   *)
(* s; every window [lo, hi] is non-empty, holds at most B ids, ends at     *)
(* min(lo + B - 1, M) and so never beyond M; each next window starts at    *)
(* hi + 1; when the batch save of a window is over, current_batch_start is *)
(* hi + 1 in self.state, and in the state file too unless a save failed;   *)
(* and a run with s <= M terminates with current_batch_start = M + 1.      *)
(***************************************************************************)
InRun == run0.started /\ pc \in Running \cup {"done"}

LastWindow == RunVisited[Len(RunVisited)]

WindowsWellFormed ==
    \A i \in 1..Len(RunVisited) :
        LET lo == RunVisited[i][1]
            hi == RunVisited[i][2]
        IN  /\ lo <= hi
            /\ hi - lo + 1 <= batch_size
            /\ hi <= highest_id
            /\ hi = lo + batch_size - 1 \/ hi = highest_id
            /\ lo = IF i = 1 THEN run0.state.current_batch_start
                    ELSE RunVisited[i - 1][2] + 1

CheckpointAfterWindow ==
    (pc \in {"loop", "done"} /\ RunVisited # << >>) =>
        /\ state.current_batch_start = LastWindow[2] + 1
        /\ ("save_fail" \notin events) =>
               /\ disk.exists /\ disk.complete
               /\ disk.content.current_batch_start = LastWindow[2] + 1

FinalCheckpoint ==
    (pc = "done" /\ run0.state.current_batch_start <= highest_id) =>
        /\ RunVisited # << >>
        /\ state.current_batch_start = highest_id + 1

C7_WindowLayout ==
    InRun => WindowsWellFormed /\ CheckpointAfterWindow /\ FinalCheckpoint

\* the end-to-end scenario: M = 250, B = 100, s = 1
C7_Witness ==
    /\ pc = "done"
    /\ batch_size = 100
    /\ run0.state.current_batch_start = 1
    /\ highest_id = 250
    /\ RunVisited = << << 1, 100 >>, << 101, 200 >>, << 201, 250 >> >>
    /\ disk = FileOf(state)
    /\ state.current_batch_start = 251

(***************************************************************************)
(* C8  Fetch-count bound per window (as amended: one more than stated).    *)
(* In a failure-free run a scanner invocation over a window of w ids with  *)
(* page size p makes at most floor(w / p) + 1 fetch calls.                 *)
(***************************************************************************)
FailureFree ==
    events \cap {"fetch_fail", "sink_fail", "save_fail", "load_fail",
                 "highest_fail"} = {}

WindowSize == max_id - min_id + 1

ShortAt(k) ==
    /\ fetches[k].n >= 1
    /\ fetches[k].n < posts_per_page
    /\ \A j \in 1..(k - 1) : fetches[j].n = posts_per_page

C9_ShortPageEndsWindow ==
    \A k \in 1..Len(fetches) :
        ShortAt(k) =>
            /\ Len(fetches) = k
            /\ \A j \in 1..k : fetches[j].page = j
            /\ pc # "fetch"
            /\ pc \in {"save", "dump"} /\ save_from = "page" => page = k
            /\ ScanReturned =>
                   /\ batch_posts = (k - 1) * posts_per_page + fetches[k].n
                   /\ "sink_fail" \notin events => sink_writes = batch_posts

\* the spec's case: two fetches, the second one short, and the scanner is done
C9_Witness ==
    /\ Len(fetches) = 2
    /\ ShortAt(2)
    /\ pc = "advance"
    /\ sink_writes = posts_per_page + fetches[2].n

(***************************************************************************)
(* C10  Empty window.  When the first fetch of a window returns no record, *)
(* the scanner makes exactly one fetch and no sink write, returns 0 and    *)
(* leaves last_processed_id and total_posts_scraped as they were; the      *)
(* driver still moves the checkpoint past the window.                      *)
(***************************************************************************)
EmptyWindow == fetches # << >> /\ fetches[1].n = 0

C10_EmptyWindow ==
    EmptyWindow =>
        /\ Len(fetches) = 1
        /\ sink_writes = 0
        /\ posts_scraped = 0
        /\ state.last_processed_id = scan0.last_processed_id
        /\ state.total_posts_scraped = scan0.total_posts_scraped
        /\ pc \notin {"fetch", "append"}
        /\ ScanReturned => batch_posts = 0
        /\ pc \in {"save", "dump", "loop", "done"} =>
               /\ save_from = "batch"
               /\ state.current_batch_start = max_id + 1

\* an empty window after a window with records, its checkpoint saved
C10_Witness ==
    /\ EmptyWindow
    /\ events = {}
    /\ pc = "loop"
    /\ scan0.last_processed_id >= 1
    /\ disk = FileOf(state)
    /\ state.current_batch_start = max_id + 1

(***************************************************************************)
(* C11  Fetch failures are absorbed as an empty page.  A failed fetch of   *)
(* page p of a window gives the scanner no record: the process goes on,    *)
(* the scanner makes no further fetch in the window and returns what the   *)
(* pages before p gave, the driver sets current_batch_start past the       *)
(* window and goes to the next one; and, as long as no saved progress is   *)
(* lost (no stop inside a window, no state-file failure), no later window  *)
(* of this or a later run reaches back into the window and the records of  *)
(* the window from page p on are not in the output file.                   *)
(* C11_Original is the statement without the proviso: no later window of   *)
(* any run reaches back into a window in which a fetch failed.             *)
(***************************************************************************)
Stopped == events \cap {"stop_boundary", "stop_mid"} # {}

NoStateLoss == events \cap {"stop_mid", "save_fail", "load_fail"} = {}

FailedFetchEndsWindow ==
    \A k \in 1..Len(fetches) :
        ~fetches[k].ok =>
            /\ fetches[k].n = 0
            /\ Len(fetches) = k
            /\ pc \in {"advance", "save", "dump", "loop", "done"}
                   \/ (Stopped /\ pc \in {"killed", "interrupted"})
                   \/ ("highest_fail" \in events /\ pc = "aborted")
            /\ posts_scraped = (k - 1) * posts_per_page
            /\ pc \in {"advance", "save", "dump", "loop", "done"} =>
                   batch_posts = posts_scraped
            /\ pc \in {"save", "dump", "loop", "done"} =>
                   /\ save_from = "batch"
                   /\ state.current_batch_start = max_id + 1

\* the ids of the window of a failed fetch that page p and the pages after
\* it would have returned
LostIds(l) ==
    LET w   == visited[l.window]
        all == IdsIn(upstream, w[1], w[2])
    IN  {all[i] : i \in ((l.page - 1) * posts_per_page + 1)..Len(all)}

LostStaysLost ==
    NoStateLoss =>
        \A l \in lost :
            /\ \A j \in (l.window + 1)..Len(visited) :
                   visited[j][1] > visited[l.window][2]
            /\ \A i \in 1..Len(out) : out[i] \notin LostIds(l)

C11_FetchFailureAbsorbed == FailedFetchEndsWindow /\ LostStaysLost

C11_Original ==
    /\ FailedFetchEndsWindow
    /\ \A l \in lost :
           \A j \in (l.window + 1)..Len(visited) :
               visited[j][1] > visited[l.window][2]

\* page 2 of a window failed after a full page 1; the run went on to the
\* next window and finished, and a record of the window is missing
C11_Witness ==
    /\ pc = "done"
    /\ NoStateLoss
    /\ \E l \in lost :
           /\ l.page = 2
           /\ LostIds(l) # {}
           /\ Len(visited) > l.window
    /\ Len(out) >= 2

(***************************************************************************)
(* C12  Output is ID-ascending.  As long as no run is stopped inside a     *)
(* window and no save or load of the state file fails, the ids of the      *)
(* lines of the output file are in non-decreasing order in every state of  *)
(* every sequence of runs; and when a process that began with an empty     *)
(* output file, or after stops between windows only, is killed or          *)
(* interrupted, the file is a prefix of the output of the uninterrupted    *)
(* run.                                                                    *)
(* C12_Original is the statement for every stop, also one inside a window: *)
(* the restarted run scans the window again from its first page and        *)
(* appends the records it had already written.                             *)
(***************************************************************************)
NonDecreasing(s) == \A i \in 1..(Len(s) - 1) : s[i] <= s[i + 1]

IsPrefix(a, b) == Len(a) <= Len(b) /\ SubSeq(b, 1, Len(a)) = a

Uninterrupted ==
    RunLines(upstream, RunWindows(1, highest_id, batch_size), posts_per_page)

CrashLeavesPrefix ==
    (pc \in {"killed", "interrupted"} /\ SmallRun) => IsPrefix(out, Uninterrupted)

C12_OutputAscending ==
    /\ NoStateLoss => NonDecreasing(out)
    /\ \/ events \subseteq {"stop_boundary"}
       \/ (events \subseteq {"stop_boundary", "stop_mid"} /\ run0.out_len = 0)
       => CrashLeavesPrefix

C12_Original ==
    events \subseteq {"stop_boundary", "stop_mid"} =>
        NonDecreasing(out) /\ CrashLeavesPrefix

\* a run stopped between two windows was restarted and wrote further lines
C12_Witness ==
    /\ pc = "done"
    /\ events = {"stop_boundary"}
    /\ run0.out_len >= 1
    /\ Len(out) > run0.out_len

(***************************************************************************)
(* C13  The sink is append-only.  Every step leaves the lines already in   *)
(* the output file where they are (the file before the step is a prefix of *)
(* the file after it), and a successful append of a page puts exactly the  *)
(* page's records after them, one line per record, in the order given; an  *)
(* append that fails or is cut puts a prefix of the page after them.       *)
(***************************************************************************)
AppendSucceeds == pc = "append" /\ pc' = "save" /\ budget' = budget

AppendOnlyStep ==
    /\ IsPrefix(out, out')
    /\ AppendSucceeds => out' = out \o posts
    /\ pc = "append" => IsPrefix(out', out \o posts)
    /\ pc # "append" => out' = out

C13_SinkAppendOnly == [][AppendOnlyStep]_vars

\* a page was appended successfully after lines that were in the file
C13_Witness ==
    /\ pc = "save"
    /\ save_from = "page"
    /\ events = {}
    /\ Len(posts) >= 1
    /\ Len(out) > Len(posts)
    /\ SubSeq(out, Len(out) - Len(posts) + 1, Len(out)) = posts

(***************************************************************************)
(* C14  total_posts_scraped counts the records written: while a run is     *)
(* under way or complete, and nothing went wrong except sink failures, the *)
(* increase of total_posts_scraped since the run started is the number of  *)
(* lines the run has appended to the output file.  (Between the append of  *)
(* a page and the update of the counter the engine is inside one step of   *)
(* the model, so the two are compared at step boundaries.)                 *)
(***************************************************************************)
C14_TotalCountsWritten ==
    (pc \in Running \cup {"done"} /\ events \subseteq {"sink_fail"}) =>
        state.total_posts_scraped - run0.state.total_posts_scraped
            = Len(out) - run0.out_len

(***************************************************************************)
(* C15  Graceful shutdown: after a run that the operator interrupted (and  *)
(* in which nothing else went wrong) the state file, when there is one,    *)
(* holds a complete state: a save that was in flight when the interrupt    *)
(* arrived has been completed.                                             *)
(***************************************************************************)
C15_GracefulShutdown ==
    (pc = "interrupted" /\ events \subseteq {"stop_boundary", "stop_mid"}) =>
        (disk.exists => disk.complete)

(***************************************************************************)
(* C16  The exit status tells the three endings of main apart: a process   *)
(* that has ended in one of them has an exit status that differs from the  *)
(* exit status of each of the other two endings.                           *)
(***************************************************************************)
C16_ExitStatusDistinct ==
    pc \in MainEndings =>
        \A other \in MainEndings \ {pc} : ExitStatus(other) # ExitStatus(pc)

(***************************************************************************)
(* C17  Load never fails and falls back to defaults.  When a process       *)
(* starts, _load_state gives the stored state if the state file exists,    *)
(* is complete and is read without error, and the default state            *)
(* (current_batch_start 1, last_processed_id 0, total_posts_scraped 0, no  *)
(* last_update) if the file is absent, incomplete or unreadable; in every  *)
(* case the state file is left as it was.                                  *)
(***************************************************************************)
ProcessStarts == pc \in Ended /\ pc' = "idle"

ReadFails == budget' < budget

IsDefault(st) ==
    /\ st.current_batch_start = 1
    /\ st.last_processed_id = 0
    /\ st.total_posts_scraped = 0
    /\ st.last_update = "None"

LoadStep ==
    ProcessStarts =>
        /\ disk' = disk
        /\ (disk.exists /\ disk.complete /\ ~ReadFails) => state' = disk.content
        /\ (~disk.exists \/ ~disk.complete \/ ReadFails) => IsDefault(state')

C17_LoadFallsBack == [][LoadStep]_vars

\* a complete state file with progress in it could not be read: the new
\* process starts from the defaults and the file is still there
C17_Witness ==
    /\ pc = "idle"
    /\ "load_fail" \in events
    /\ IsDefault(state)
    /\ disk.exists /\ disk.complete
    /\ disk.content.current_batch_start > 1

(***************************************************************************)
(* C18  A failed state save is not fatal.  In a run in which nothing went  *)
(* wrong but saves of the state file: the process is never ended by it;    *)
(* the in-memory counter keeps step with the lines written; a completed    *)
(* run has visited the windows and written the lines of the run without    *)
(* the failure and its checkpoint is past the highest id; and every save   *)
(* that succeeds puts the whole in-memory state into the state file.       *)
(***************************************************************************)
SaveFailedOnly == "save_fail" \in events /\ events \subseteq {"save_fail", "grew"}

SaveFailureNotFatal ==
    (SaveFailedOnly /\ run0.started) =>
        /\ pc \in Running \cup {"done", "idle"}
        /\ pc \in Running \cup {"done"} =>
               state.total_posts_scraped - run0.state.total_posts_scraped
                   = Len(RunOut)
        /\ (pc = "done" /\ SmallRun) =>
               /\ RunVisited = RunWindows(run0.state.current_batch_start,
                                          highest_id, batch_size)
               /\ RunOut = RunLines(upstream, RunVisited, posts_per_page)
               /\ RunVisited # << >> =>
                      state.current_batch_start = highest_id + 1

SaveSucceeds == pc = "dump" /\ budget' = budget

SuccessfulSavePersistsAll ==
    SaveSucceeds =>
        /\ disk'.exists /\ disk'.complete
        /\ disk'.content = state
        /\ state' = state

C18_SaveFailureNonFatal ==
    []SaveFailureNotFatal /\ [][SuccessfulSavePersistsAll]_vars

\* a save failed during the run; the run completed two windows and its last
\* save put the whole progress into the state file
C18_Witness ==
    /\ pc = "done"
    /\ SaveFailedOnly
    /\ Len(RunVisited) >= 2
    /\ Len(RunOut) >= 2
    /\ disk.exists /\ disk.complete
    /\ disk.content = state
    /\ state.total_posts_scraped = Len(out)

(***************************************************************************)
(* C19  Resume after new upstream data.  A call of scrape_all that follows *)
(* a completed run with highest id M (in the same process, or in a new     *)
(* process whose state file was saved and loaded without failure) and      *)
(* finds the highest id M' > M scans windows inside [M+1, M'] only, the    *)
(* first of them starting at M+1, queries no id up to M, and ends with     *)
(* current_batch_start = M' + 1.                                           *)
(***************************************************************************)
ResumedAfterGrowth ==
    /\ run0.started
    /\ run0.after_done_max > 0
    /\ highest_id > run0.after_done_max
    /\ pc \in Running \cup {"done"}
    /\ run0.first_call => StateFileSound

C19_ResumeAfterGrowth ==
    ResumedAfterGrowth =>
        LET M == run0.after_done_max IN
        /\ run0.state.current_batch_start = M + 1
        /\ \A i \in 1..Len(RunVisited) :
               /\ RunVisited[i][1] >= M + 1
               /\ RunVisited[i][1] <= RunVisited[i][2]
               /\ RunVisited[i][2] <= highest_id
        /\ RunVisited # << >> =>
               /\ RunVisited[1][1] = M + 1
               /\ \A k \in 1..Len(fetches) :
                      fetches[k].lo >= M + 1 /\ fetches[k].hi <= highest_id
        /\ \A i \in (run0.out_len + 1)..Len(out) : out[i] > M
        /\ pc = "done" =>
               /\ RunVisited # << >>
               /\ state.current_batch_start = highest_id + 1
               /\ SmallRun =>
                      RunVisited = RunWindows(M + 1, highest_id, batch_size)

\* a new process, started after a completed run that wrote records, found
\* a higher id, scanned it and terminated
C19_Witness ==
    /\ ResumedAfterGrowth
    /\ run0.first_call
    /\ pc = "done"
    /\ run0.out_len >= 1
    /\ Len(out) > run0.out_len
    /\ RunVisited # << >>

(***************************************************************************)
(* C20  Page ceiling.  One call of the scanner makes at most max_pages     *)
(* fetches, for the pages 1, 2, 3, ... in this order, none repeated or     *)
(* skipped; when page max_pages came back full the scanner still returns,  *)
(* with all the records of the pages counted, and the driver moves         *)
(* current_batch_start past the window.                                    *)
(***************************************************************************)
CeilingReached ==
    /\ Len(fetches) = max_pages
    /\ fetches[max_pages].n = posts_per_page

PagesInOrder ==
    /\ Len(fetches) <= max_pages
    /\ \A j \in 1..Len(fetches) : fetches[j].page = j
    /\ pc = "fetch" => page = Len(fetches) + 1 /\ page <= max_pages

CeilingEndsWindow ==
    CeilingReached =>
        /\ pc # "fetch"
        /\ ScanReturned => batch_posts = max_pages * posts_per_page
        /\ pc \in {"loop", "done"} => state.current_batch_start = max_id + 1

C20_PageCeiling == PagesInOrder /\ CeilingEndsWindow

\* the window of max_pages + 1 records: page max_pages came back full, the
\* scanner returned and the driver has moved the checkpoint past the window
C20_Witness ==
    /\ CeilingReached
    /\ pc = "loop"
    /\ batch_posts = max_pages * posts_per_page
    /\ state.current_batch_start = max_id + 1
    /\ disk.content.current_batch_start = max_id + 1

(***************************************************************************)
(* C21  last_processed_id is the running maximum.  In a live process,      *)
(* last_processed_id is the highest of its value at load and the ids of    *)
(* the records of all pages fetched and counted so far (while a fetched    *)
(* page waits to be counted, the page's ids are still to come); it never   *)
(* decreases while the process lives; and after a failure-free run from    *)
(* the default state it is at most the highest upstream id.                *)
(***************************************************************************)
Alive == pc \in Running \cup {"idle", "done", "aborted"}

RunningMaximum ==
    Alive =>
        IF pc = "append"
          THEN MaxOf({state.last_processed_id, MaxPostId(posts)}) = observed_max
          ELSE state.last_processed_id = observed_max

NeverDecreases ==
    (Alive /\ pc' \in Running \cup {"done", "aborted"}) =>
        state'.last_processed_id >= state.last_processed_id

AtMostUpstreamMax ==
    (pc = "done" /\ Undisturbed /\ run0.state = DefaultState) =>
        /\ state.last_processed_id \in upstream
        /\ state.last_processed_id <= MaxOf(upstream)

C21_RunningMaximum ==
    [](RunningMaximum /\ AtMostUpstreamMax) /\ [][NeverDecreases]_vars

\* a restarted process loaded a last_processed_id above the ids of the page
\* it has just fetched again and counted
C21_Witness ==
    /\ pc = "save"
    /\ save_from = "page"
    /\ Len(posts) >= 1
    /\ MaxPostId(posts) < state.last_processed_id
    /\ state.last_processed_id = observed_max

(***************************************************************************)
(* C22  Frame and return value of the scanner.  While _scrape_id_range is  *)
(* at work on a window, and when it has returned, current_batch_start is   *)
(* what it was when the call began, in self.state and in every state file  *)
(* the call has written; its bounds are those of the window the driver     *)
(* gave it and every fetch carries them; the count of posts (the return    *)
(* value) is the sum of the sizes of the pages fetched and counted, which  *)
(* is the increase of total_posts_scraped since the call began.            *)
(***************************************************************************)
InScan ==
    \/ pc \in {"fetch", "append", "advance"}
    \/ pc \in {"save", "dump"} /\ save_from = "page"

RECURSIVE PagesTotal(_, _, _)
PagesTotal(f, a, b) ==
    IF a > b THEN 0
    ELSE IF a = b THEN f[a].n
    ELSE LET m == (a + b) \div 2
         IN  PagesTotal(f, a, m) + PagesTotal(f, m + 1, b)

\* the pages counted so far: all pages fetched, but for the page that is
\* about to be handed to the sink
Counted == IF pc = "append" THEN Len(fetches) - 1 ELSE Len(fetches)

ScannerFrame ==
    InScan =>
        /\ state.current_batch_start = scan0.current_batch_start
        /\ << min_id, max_id >> = visited[Len(visited)]
        /\ \A k \in 1..Len(fetches) :
               fetches[k].lo = min_id /\ fetches[k].hi = max_id
        /\ posts_scraped = PagesTotal(fetches, 1, Counted)
        /\ posts_scraped =
               state.total_posts_scraped - scan0.total_posts_scraped

ScannerReturn ==
    pc = "advance" =>
        /\ batch_posts = PagesTotal(fetches, 1, Len(fetches))
        /\ batch_posts = state.total_posts_scraped - scan0.total_posts_scraped

\* a state file written during the call holds the checkpoint of its start
ScannerSaveStep ==
    (pc = "dump" /\ save_from = "page" /\ disk'.complete) =>
        disk'.content.current_batch_start = scan0.current_batch_start

C22_ScannerFrame ==
    [](ScannerFrame /\ ScannerReturn) /\ [][ScannerSaveStep]_vars

\* the scanner has returned after two pages with records; the state file
\* written by its last page save holds the counters and the old checkpoint
C22_Witness ==
    /\ pc = "advance"
    /\ Len(fetches) >= 2
    /\ batch_posts >= 2
    /\ disk.exists /\ disk.complete
    /\ disk.content.total_posts_scraped = state.total_posts_scraped
    /\ disk.content.current_batch_start = min_id
    /\ max_id > min_id

(***************************************************************************)
(* C23  Request bounds.  Whatever page size was configured, every window   *)
(* fetch carries a limit of at most MaxPostsPerPage and a page number of   *)
(* at least 1, all fetches carry the engine's one (clamped) page size, and *)
(* after a page was saved the scanner ends the window exactly when the     *)
(* page held fewer records than that limit or the page ceiling is reached. *)
(***************************************************************************)
FetchesInBounds ==
    /\ \A k \in 1..Len(fetches) :
           /\ fetches[k].limit <= MaxPostsPerPage
           /\ fetches[k].limit = posts_per_page
           /\ fetches[k].page >= 1
           /\ fetches[k].n <= fetches[k].limit

PageSaveReturns ==
    /\ pc \in {"save", "dump"}
    /\ save_from = "page"
    /\ pc' \in {"fetch", "advance"}

ShortTestUsesLimit ==
    PageSaveReturns =>
        LET last == fetches[Len(fetches)] IN
        /\ Len(posts) = last.n
        /\ pc' = "advance" <=> (last.n < last.limit \/ ~MorePages(page + 1))

C23_RequestBounds == []FetchesInBounds /\ [][ShortTestUsesLimit]_vars

\* page size 250 was configured: the first page came back with exactly
\* MaxPostsPerPage records, the scanner went on to page 2 and got the rest
C23_Witness ==
    /\ pc = "done"
    /\ Len(fetches) = 2
    /\ fetches[1].limit = MaxPostsPerPage
    /\ fetches[1].n = MaxPostsPerPage
    /\ fetches[2].n >= 1
    /\ Len(out) = MaxPostsPerPage + fetches[2].n

(***************************************************************************)
(* C24  Data is written before progress.  In a run that started on an      *)
(* empty output file with the default state, with a state file that was    *)
(* absent or held no progress, and in which no sink append failed, at      *)
(* every point, also after a kill or an interrupt: the                     *)
(* total_posts_scraped a new process would load from the state file is at  *)
(* most the number of lines of the output file, and every record the       *)
(* engine has received whose id lies below the current_batch_start a new   *)
(* process would load is in the output file.                               *)
(* C24_Original is the statement without the condition on the state file:  *)
(* a process that could not read a state file with progress in it starts   *)
(* with the default state while the file still holds the old checkpoint.   *)
(***************************************************************************)
FromEmpty ==
    /\ run0.started
    /\ run0.out_len = 0
    /\ run0.state = DefaultState
    /\ "sink_fail" \notin events
    /\ pc \in Running \cup {"done", "killed", "interrupted"}

\* what a process started now would load
Persisted == LoadState(disk, TRUE)

\* the state file the run found held no progress
NoStoredProgress ==
    LET found == LoadState(run0.disk, TRUE) IN
    /\ found.current_batch_start = DefaultState.current_batch_start
    /\ found.total_posts_scraped = 0

OutIds == {out[i] : i \in 1..Len(out)}

DataFirst ==
    /\ Persisted.total_posts_scraped <= Len(out)
    /\ \A i \in received : i < Persisted.current_batch_start => i \in OutIds

C24_DataBeforeProgress == (FromEmpty /\ NoStoredProgress) => DataFirst

C24_Original == FromEmpty => DataFirst

\* a crash point: the process was killed after a page of the second window
\* was appended and before it was saved
C24_Witness ==
    /\ FromEmpty
    /\ pc = "killed"
    /\ disk.exists /\ disk.complete
    /\ disk.content.current_batch_start > 1
    /\ disk.content.total_posts_scraped >= 1
    /\ Len(out) > disk.content.total_posts_scraped
    /\ \E i \in received : i < disk.content.current_batch_start

====
